---- MODULE Spec2Model ----
(***************************************************************************)
(* Model of the file based, batch tracked schema migration engine          *)
(* (app/database/migration_manager.go) together with the connection        *)
(* registry it borrows its handles from (database.Manager, facades).       *)
(*                                                                         *)
(* Strings the code compares or sorts byte-wise (file names) are tuples of *)
(* byte values.  A migration text is a tuple of tokens: the two markers,   *)
(* the separator ";", the blank " " and SQL words.                         *)
(*                                                                         *)
(* Every operation is one action.  Its inputs are its arguments, the index *)
(* k of the call that fails among the calls whose error the code inspects  *)
(* (0: none fails) and the set u of call sites whose error the code        *)
(* discards and that fail in this run.                                     *)
(***************************************************************************)
EXTENDS Integers, Sequences, FiniteSets, TLC

VARIABLES db, manager, last

vars == <<db, manager, last>>

(***************************************************************************)
(* Bounds of the exploration.                                              *)
(***************************************************************************)
MaxSize == 6

\* the longest migration text handed to the parser, in tokens
MaxText == 7

(***************************************************************************)
(* Program constants.                                                      *)
(***************************************************************************)
upMarker == "U"

downMarker == "D"

\* connection names of config.GetDatabaseConfigs
Configured == {"mysql", "postgres", "mysql_secondary"}

\* configs.Default: getEnv("DB_CONNECTION", "mysql")
DefaultName == "mysql"

\* byte strings
SqlSuffix == <<46, 115, 113, 108>>

NameA == <<97>>

NameAB == <<97, 45, 98>>

NameB == <<98>>

\* os.ReadDir("app/database/migrations"): entries sorted by file name;
\* "a-b.sql" < "a.sql" < "a.txt" < "b.sql" byte-wise
DirEntries ==
    <<NameAB \o SqlSuffix, NameA \o SqlSuffix, <<97, 46, 116, 120, 116>>,
      NameB \o SqlSuffix>>

\* the change-set files of the migrations directory, without ".sql"
Files == {NameA, NameAB, NameB}

\* contents of the change-set files; the third has no DOWN part
FileText == [f \in Files |->
    IF f = NameA
    THEN <<"U", " ", "c1", ";", " ", "c2", ";", " ", "D", " ", "d1", ";", "d2", " ", ";">>
    ELSE IF f = NameAB
    THEN <<"U", "c3", " ", "x", ";", " ", ";", "D", "d3", ";">>
    ELSE <<"U", " ", "c4", ";">>]

(***************************************************************************)
(* strings package                                                         *)
(***************************************************************************)
RECURSIVE StrLess(_, _)
StrLess(a, b) ==
    IF b = <<>> THEN FALSE
    ELSE IF a = <<>> THEN TRUE
    ELSE IF a[1] < b[1] THEN TRUE
    ELSE IF a[1] > b[1] THEN FALSE
    ELSE StrLess(Tail(a), Tail(b))

HasSuffix(s, suf) ==
    /\ Len(s) >= Len(suf)
    /\ SubSeq(s, Len(s) - Len(suf) + 1, Len(s)) = suf

TrimSuffix(s, suf) ==
    IF HasSuffix(s, suf) THEN SubSeq(s, 1, Len(s) - Len(suf)) ELSE s

\* insert x into the ascending sequence s
RECURSIVE InsertSorted(_, _)
InsertSorted(x, s) ==
    IF s = <<>> THEN <<x>>
    ELSE IF StrLess(x, s[1]) THEN <<x>> \o s
    ELSE <<s[1]>> \o InsertSorted(x, Tail(s))

\* sort.Strings left out: toRun stays in the order of the directory listing
SortStrings_Unsorted(s) == s

RECURSIVE SortStrings(_)
SortStrings(s) ==
    IF s = <<>> THEN <<>> ELSE InsertSorted(s[1], SortStrings(Tail(s)))

\* strings.Split(s, sep) for a one-token separator; cur is the part being read
RECURSIVE SplitFrom(_, _, _)
SplitFrom(s, sep, cur) ==
    IF s = <<>> THEN <<cur>>
    ELSE IF s[1] = sep THEN <<cur>> \o SplitFrom(Tail(s), sep, <<>>)
    ELSE SplitFrom(Tail(s), sep, Append(cur, s[1]))

Split(s, sep) == SplitFrom(s, sep, <<>>)

\* strings.Replace(s, old, "", 1)
RECURSIVE ReplaceFirst(_, _)
ReplaceFirst(s, old) ==
    IF s = <<>> THEN s
    ELSE IF s[1] = old THEN Tail(s)
    ELSE <<s[1]>> \o ReplaceFirst(Tail(s), old)

RECURSIVE TrimSpace(_)
TrimSpace(s) ==
    IF s = <<>> THEN s
    ELSE IF s[1] = " " THEN TrimSpace(Tail(s))
    ELSE IF s[Len(s)] = " " THEN TrimSpace(SubSeq(s, 1, Len(s) - 1))
    ELSE s

(***************************************************************************)
(* Change-set parser                                                       *)
(***************************************************************************)
RECURSIVE KeepStatements(_)
KeepStatements(cands) ==
    IF cands = <<>> THEN <<>>
    ELSE LET t == TrimSpace(cands[1])
         IN (IF t # <<>> THEN <<t>> ELSE <<>>) \o KeepStatements(Tail(cands))

parseSQLStatements(content) == KeepStatements(Split(content, ";"))

\* the parser without the removal of the UP marker
parseMigrationFile_KeepMarker(content) ==
    LET parts == Split(content, downMarker)
        downPart == IF Len(parts) > 1 THEN parts[2] ELSE <<>>
    IN [up |-> parseSQLStatements(parts[1]), down |-> parseSQLStatements(downPart)]

parseMigrationFile(content) ==
    LET parts == Split(content, downMarker)
        downPart == IF Len(parts) > 1 THEN parts[2] ELSE <<>>
        upPart == ReplaceFirst(parts[1], upMarker)
    IN [up |-> parseSQLStatements(upPart), down |-> parseSQLStatements(downPart)]

(***************************************************************************)
(* The state a run threads through its calls:                              *)
(*   mgr, reg  facades.manager is set; names in Manager.connections        *)
(*   def       configs.Default, the name GetDefaultConnection resolves      *)
(*   db        per connection: the migrations table exists, and its rows   *)
(*             in ascending id order (ids are assigned increasing, so the  *)
(*             position in the sequence is the order of the ids)           *)
(*   log       the statements of change-sets handed to the database        *)
(*   req       the requests made to the registry, in order                 *)
(*   n         the number of error-inspected calls made so far             *)
(*   err       "" for nil, otherwise the kind of the error returned        *)
(***************************************************************************)
Hit(st, k) == st.n + 1 = k

Tick(st) == [st EXCEPT !.n = @ + 1]

Raise(st, e) == [st EXCEPT !.err = e]

\* the index handed to a call whose error the caller discards: the call
\* fails exactly when the environment makes that call site fail
Forced(st, fails) == IF fails THEN st.n + 1 ELSE 0

\* a discarded error: the run goes on as if the call had not failed
Discard(st, before) ==
    IF st.err = "fatal" THEN st ELSE [st EXCEPT !.err = "", !.n = before.n]

Entry(call, conn, file, sql, batch, ok) ==
    [call |-> call, conn |-> conn, file |-> file, sql |-> sql, batch |-> batch,
     ok |-> ok]

Logged(st, e) == [st EXCEPT !.log = Append(@, e)]

\* a request to the registry for a name: whether it dialled, and its outcome
Asked(st, name, dialled, ok) ==
    [st EXCEPT !.req = Append(@, [name |-> name, dialled |-> dialled, ok |-> ok])]

(***************************************************************************)
(* Connection registry: database.Manager and the facade in front of it     *)
(***************************************************************************)
\* Connect without m.connections[connectionName] = conn
Connect_NoStore(st, connectionName, k) ==
    IF connectionName \in st.reg THEN st
    ELSE IF connectionName \notin Configured
    THEN Raise(Asked(st, connectionName, FALSE, FALSE), "config")
    ELSE IF Hit(st, k)
    THEN Raise(Tick(Asked(st, connectionName, TRUE, FALSE)), "connect")
    ELSE Tick(Asked(st, connectionName, TRUE, TRUE))

\* Manager.Connect: dial and ping are one inspected call
Connect(st, connectionName, k) ==
    IF connectionName \in st.reg THEN st
    ELSE IF connectionName \notin Configured
    THEN Raise(Asked(st, connectionName, FALSE, FALSE), "config")
    ELSE IF Hit(st, k)
    THEN Raise(Tick(Asked(st, connectionName, TRUE, FALSE)), "connect")
    ELSE [Tick(Asked(st, connectionName, TRUE, TRUE)) EXCEPT
            !.reg = @ \cup {connectionName}]

ManagerGetConnection(st, connectionName, k) ==
    IF connectionName \in st.reg THEN Asked(st, connectionName, FALSE, TRUE)
    ELSE Connect(st, connectionName, k)

\* log.Fatalf when the default connection failed with s1
FatalOnError(s1) == IF s1.err # "" THEN Raise(s1, "fatal") ELSE s1

\* facades.ConnectDB: sets the manager, connects the default connection and
\* ends the process (log.Fatalf) when that fails
ConnectDB(st, k) ==
    FatalOnError(ManagerGetConnection([st EXCEPT !.mgr = TRUE], st.def, k))

\* return manager.GetConnection(connectionName), with the manager of s1
FromManager(s1, connectionName, k) ==
    IF s1.err # "" THEN s1 ELSE ManagerGetConnection(s1, connectionName, k)

\* facades.GetConnection
GetConnection(st, connectionName, k) ==
    FromManager(IF st.mgr THEN st ELSE ConnectDB(st, k), connectionName, k)

(***************************************************************************)
(* The statements a connection handle executes                             *)
(***************************************************************************)
\* conn.DB.Exec of a statement of the change-set file
ExecStmt(st, conn, file, sql, k) ==
    IF Hit(st, k)
    THEN Raise(Logged(Tick(st), Entry("exec", conn, file, sql, 0, FALSE)), "exec")
    ELSE Logged(Tick(st), Entry("exec", conn, file, sql, 0, TRUE))

\* CREATE TABLE IF NOT EXISTS migrations
ExecCreateTable(st, conn, k) ==
    IF Hit(st, k) THEN Raise(Tick(st), "create")
    ELSE [Tick(st) EXCEPT !.db[conn].exists = TRUE]

\* the insert made through facades.DB, the handle of the default connection
ExecInsert_Default(st, conn, filename, batch, k) ==
    IF ~st.db[DefaultName].exists \/ Hit(st, k)
    THEN Raise(Logged(Tick(st), Entry("insert", conn, filename, <<>>, batch, FALSE)),
               "record")
    ELSE [Logged(Tick(st), Entry("insert", conn, filename, <<>>, batch, TRUE)) EXCEPT
            !.db[DefaultName].rows = Append(@, [filename |-> filename, batch |-> batch])]

\* the insert against a unique key on filename, written INSERT IGNORE
ExecInsert_Ignore(st, conn, filename, batch, k) ==
    IF ~st.db[conn].exists \/ Hit(st, k)
    THEN Raise(Logged(Tick(st), Entry("insert", conn, filename, <<>>, batch, FALSE)),
               "record")
    ELSE IF \E i \in 1..Len(st.db[conn].rows) : st.db[conn].rows[i].filename = filename
    THEN Logged(Tick(st), Entry("insert", conn, filename, <<>>, batch, TRUE))
    ELSE [Logged(Tick(st), Entry("insert", conn, filename, <<>>, batch, TRUE)) EXCEPT
            !.db[conn].rows = Append(@, [filename |-> filename, batch |-> batch])]

\* INSERT INTO migrations(filename,batch) VALUES(?,?)
ExecInsert(st, conn, filename, batch, k) ==
    IF ~st.db[conn].exists \/ Hit(st, k)
    THEN Raise(Logged(Tick(st), Entry("insert", conn, filename, <<>>, batch, FALSE)),
               "record")
    ELSE [Logged(Tick(st), Entry("insert", conn, filename, <<>>, batch, TRUE)) EXCEPT
            !.db[conn].rows = Append(@, [filename |-> filename, batch |-> batch])]

\* DELETE FROM migrations WHERE filename=?
ExecDelete(st, conn, filename, k) ==
    IF ~st.db[conn].exists \/ Hit(st, k)
    THEN Raise(Logged(Tick(st), Entry("delete", conn, filename, <<>>, 0, FALSE)),
               "delete")
    ELSE [Logged(Tick(st), Entry("delete", conn, filename, <<>>, 0, TRUE)) EXCEPT
            !.db[conn].rows = SelectSeq(@, LAMBDA r : r.filename # filename)]

\* the query written with COUNT(*) in place of MAX(batch)
MaxBatchOf_Count(rows) == Len(rows)

\* the query reading the batch of the oldest row in place of MAX(batch)
MaxBatchOf_First(rows) == IF rows = <<>> THEN 0 ELSE rows[1].batch

RECURSIVE MaxBatchOf(_)
MaxBatchOf(rows) ==
    IF rows = <<>> THEN 0
    ELSE LET m == MaxBatchOf(Tail(rows))
         IN IF rows[1].batch > m THEN rows[1].batch ELSE m

\* SELECT COALESCE(MAX(batch),0) AS batch FROM migrations
QueryMaxBatch(st, conn, k) ==
    IF ~st.db[conn].exists \/ Hit(st, k)
    THEN [st |-> Raise(Tick(st), "query"), val |-> 0]
    ELSE [st |-> Tick(st), val |-> MaxBatchOf(st.db[conn].rows)]

\* an isApplied that never finds a row
CountRows_Never(rows, filename) == 0

\* SELECT COUNT(*) FROM migrations WHERE filename = ?
CountRows(rows, filename) ==
    Cardinality({i \in 1..Len(rows) : rows[i].filename = filename})

RECURSIVE Reverse(_)
Reverse(s) == IF s = <<>> THEN <<>> ELSE Reverse(Tail(s)) \o <<s[1]>>

\* the query with ORDER BY id ASC
SelectBatchDesc_Asc(rows, batch) ==
    LET sel == SelectSeq(rows, LAMBDA r : r.batch = batch)
    IN [i \in 1..Len(sel) |-> sel[i].filename]

\* SELECT filename FROM migrations WHERE batch=? ORDER BY id DESC
SelectBatchDesc(rows, batch) ==
    LET sel == SelectSeq(rows, LAMBDA r : r.batch = batch)
    IN Reverse([i \in 1..Len(sel) |-> sel[i].filename])

\* os.ReadFile("app/database/migrations/<name>.sql")
ReadFile(st, name, k) ==
    IF name \notin Files \/ Hit(st, k)
    THEN [st |-> Raise(Logged(Tick(st), Entry("read", "", name, <<>>, 0, FALSE)), "read"),
          data |-> <<>>]
    ELSE [st |-> Logged(Tick(st), Entry("read", "", name, <<>>, 0, TRUE)),
          data |-> FileText[name]]

\* os.ReadDir("app/database/migrations")
ReadDir(st, k) ==
    IF Hit(st, k) THEN [st |-> Raise(Tick(st), "readdir"), files |-> <<>>]
    ELSE [st |-> Tick(st), files |-> DirEntries]

\* the loop without its early return: a failed statement does not stop it
RECURSIVE ExecAll_KeepGoing(_, _, _, _, _)
ExecAll_KeepGoing(st, conn, file, stmts, k) ==
    IF stmts = <<>> THEN st
    ELSE ExecAll_KeepGoing(ExecStmt(st, conn, file, stmts[1], k), conn, file,
                           Tail(stmts), k)

\* the loops over the statements of one part of a change-set
RECURSIVE ExecAll(_, _, _, _, _)
ExecAll(st, conn, file, stmts, k) ==
    IF stmts = <<>> THEN st
    ELSE LET s1 == ExecStmt(st, conn, file, stmts[1], k)
         IN IF s1.err # "" THEN s1 ELSE ExecAll(s1, conn, file, Tail(stmts), k)

(***************************************************************************)
(* History store                                                           *)
(***************************************************************************)
ensureMigrationsTable(st, connectionName, k) ==
    LET s1 == GetConnection(st, connectionName, k)
    IN IF s1.err # "" THEN s1 ELSE ExecCreateTable(s1, connectionName, k)

getLastBatch(st, connectionName, k) ==
    LET s1 == GetConnection(st, connectionName, k)
    IN IF s1.err # "" THEN [st |-> s1, val |-> 0]
       ELSE QueryMaxBatch(s1, connectionName, k)

\* the connection an omitted name stands for
DefaultOf(connectionName) ==
    IF connectionName = "" THEN "mysql" ELSE connectionName

(***************************************************************************)
(* Migration engine                                                        *)
(***************************************************************************)
\* apply-one with the isApplied check of apply-all: a recorded file is skipped
RunMigrationOnConnection_Checked(st, filename, connectionName, k) ==
    LET name == DefaultOf(connectionName)
        s1 == ensureMigrationsTable(st, name, k)
        q == getLastBatch(s1, name, k)
        batch == q.val + 1
        r == ReadFile(q.st, filename, k)
        s2 == GetConnection(r.st, name, k)
        ups == parseMigrationFile(r.data).up
        s3 == ExecAll(s2, name, filename, ups, k)
    IN IF s1.err # "" THEN s1
       ELSE IF q.st.err # "" THEN q.st
       ELSE IF CountRows(q.st.db[name].rows, filename) > 0 THEN q.st
       ELSE IF r.st.err # "" THEN r.st
       ELSE IF s2.err # "" THEN s2
       ELSE IF s3.err # "" THEN s3
       ELSE ExecInsert(s3, name, filename, batch, k)

RunMigrationOnConnection(st, filename, connectionName, k) ==
    LET name == DefaultOf(connectionName)
        s1 == ensureMigrationsTable(st, name, k)
        q == getLastBatch(s1, name, k)
        batch == q.val + 1
        r == ReadFile(q.st, filename, k)
        s2 == GetConnection(r.st, name, k)
        ups == parseMigrationFile(r.data).up
        s3 == ExecAll(s2, name, filename, ups, k)
    IN IF s1.err # "" THEN s1
       ELSE IF q.st.err # "" THEN q.st
       ELSE IF r.st.err # "" THEN r.st
       ELSE IF s2.err # "" THEN s2
       ELSE IF s3.err # "" THEN s3
       ELSE ExecInsert(s3, name, filename, batch, k)

\* revert-one forgetting the change-set whether or not its statements succeeded
RollbackMigrationOnConnection_Forget(st, filename, connectionName, k) ==
    LET name == DefaultOf(connectionName)
        r == ReadFile(st, filename, k)
        s1 == GetConnection(r.st, name, k)
        downs == parseMigrationFile(r.data).down
        s2 == ExecAll(s1, name, filename, downs, k)
    IN IF r.st.err # "" THEN r.st
       ELSE IF s1.err # "" THEN s1
       ELSE ExecDelete(s2, name, filename, k)

\* revert-one with an isApplied check: nothing is done for an unrecorded file
RollbackMigrationOnConnection_Checked(st, filename, connectionName, k) ==
    LET name == DefaultOf(connectionName)
        r == ReadFile(st, filename, k)
        s1 == GetConnection(r.st, name, k)
        downs == parseMigrationFile(r.data).down
        s2 == ExecAll(s1, name, filename, downs, k)
    IN IF r.st.err # "" THEN r.st
       ELSE IF s1.err # "" THEN s1
       ELSE IF CountRows(s1.db[name].rows, filename) = 0 THEN s1
       ELSE IF s2.err # "" THEN s2
       ELSE ExecDelete(s2, name, filename, k)

RollbackMigrationOnConnection(st, filename, connectionName, k) ==
    LET name == DefaultOf(connectionName)
        r == ReadFile(st, filename, k)
        s1 == GetConnection(r.st, name, k)
        downs == parseMigrationFile(r.data).down
        s2 == ExecAll(s1, name, filename, downs, k)
    IN IF r.st.err # "" THEN r.st
       ELSE IF s1.err # "" THEN s1
       ELSE IF s2.err # "" THEN s2
       ELSE ExecDelete(s2, name, filename, k)

\* the loop that collects toRun; the error of the COUNT query is discarded,
\* so cnt keeps its zero value when the query fails
RECURSIVE Pending(_, _, _, _)
Pending(st, conn, files, u) ==
    IF files = <<>> THEN <<>>
    ELSE LET name == TrimSuffix(files[1], SqlSuffix)
             cnt == IF ~st.db[conn].exists \/ "count" \in u THEN 0
                    ELSE CountRows(st.db[conn].rows, name)
         IN (IF HasSuffix(files[1], SqlSuffix) /\ cnt = 0 THEN <<name>> ELSE <<>>)
            \o Pending(st, conn, Tail(files), u)

\* the loop over toRun with the batch read again before every change-set
RECURSIVE MigrateEach_Reread(_, _, _, _, _)
MigrateEach_Reread(st, conn, toRun, batch, k) ==
    IF toRun = <<>> THEN st
    ELSE LET name == toRun[1]
             r == ReadFile(st, name, k)
             parts == Split(r.data, downMarker)
             up == ReplaceFirst(parts[1], upMarker)
             s1 == ExecAll(r.st, conn, name, parseSQLStatements(up), k)
             s2 == ExecInsert(s1, conn, name, MaxBatchOf(s1.db[conn].rows) + 1, k)
         IN IF r.st.err # "" THEN r.st
            ELSE IF s1.err # "" THEN s1
            ELSE IF s2.err # "" THEN s2
            ELSE MigrateEach_Reread(s2, conn, Tail(toRun), batch, k)

\* the loop over toRun going on to the next change-set after a failure
RECURSIVE MigrateEach_KeepGoing(_, _, _, _, _)
MigrateEach_KeepGoing(st, conn, toRun, batch, k) ==
    IF toRun = <<>> THEN st
    ELSE LET name == toRun[1]
             r == ReadFile(st, name, k)
             parts == Split(r.data, downMarker)
             up == ReplaceFirst(parts[1], upMarker)
             s1 == ExecAll(r.st, conn, name, parseSQLStatements(up), k)
             s2 == ExecInsert(s1, conn, name, batch, k)
             s3 == IF r.st.err # st.err THEN r.st
                   ELSE IF s1.err # st.err THEN s1
                   ELSE s2
         IN MigrateEach_KeepGoing(s3, conn, Tail(toRun), batch, k)

\* the loop over toRun
RECURSIVE MigrateEach(_, _, _, _, _)
MigrateEach(st, conn, toRun, batch, k) ==
    IF toRun = <<>> THEN st
    ELSE LET name == toRun[1]
             r == ReadFile(st, name, k)
             parts == Split(r.data, downMarker)
             up == ReplaceFirst(parts[1], upMarker)
             s1 == ExecAll(r.st, conn, name, parseSQLStatements(up), k)
             s2 == ExecInsert(s1, conn, name, batch, k)
         IN IF r.st.err # "" THEN r.st
            ELSE IF s1.err # "" THEN s1
            ELSE IF s2.err # "" THEN s2
            ELSE MigrateEach(s2, conn, Tail(toRun), batch, k)

RunAllMigrationsOnConnection(st, connectionName, k, u) ==
    LET name == DefaultOf(connectionName)
        s1 == ensureMigrationsTable(st, name, k)
        s2 == GetConnection(s1, name, k)
        q == QueryMaxBatch(s2, name, k)
        batch == q.val + 1
        d == ReadDir(q.st, k)
        toRun == SortStrings(Pending(d.st, name, d.files, u))
    IN IF s1.err # "" THEN s1
       ELSE IF s2.err # "" THEN s2
       ELSE IF q.st.err # "" THEN q.st
       ELSE IF d.st.err # "" THEN d.st
       ELSE MigrateEach(d.st, name, toRun, batch, k)

\* the loop over the rows of the batch going on after a failed revert-one
RECURSIVE RollbackEach_KeepGoing(_, _, _, _)
RollbackEach_KeepGoing(st, rows, connectionName, k) ==
    IF rows = <<>> THEN st
    ELSE RollbackEach_KeepGoing(
             RollbackMigrationOnConnection(st, rows[1], connectionName, k),
             Tail(rows), connectionName, k)

\* the loop over the rows of the batch
RECURSIVE RollbackEach(_, _, _, _)
RollbackEach(st, rows, connectionName, k) ==
    IF rows = <<>> THEN st
    ELSE LET s1 == RollbackMigrationOnConnection(st, rows[1], connectionName, k)
         IN IF s1.err # "" THEN s1
            ELSE RollbackEach(s1, Tail(rows), connectionName, k)

RollbackBatchOnConnection(st, batch, connectionName, k, u) ==
    LET name == DefaultOf(connectionName)
        s1 == ensureMigrationsTable(st, name, k)
        s2 == GetConnection(s1, name, k)
        rows == IF ~s2.db[name].exists \/ "rows" \in u THEN <<>>
                ELSE SelectBatchDesc(s2.db[name].rows, batch)
    IN IF s1.err # "" THEN s1
       ELSE IF s2.err # "" THEN s2
       ELSE RollbackEach(s2, rows, name, k)

\* the loop reverting batch b and no older one
RollbackDown_TopOnly(st, b, connectionName, k, u) ==
    IF b < 1 THEN st ELSE RollbackBatchOnConnection(st, b, connectionName, k, u)

\* for b := last; b >= 1; b--
RECURSIVE RollbackDown(_, _, _, _, _)
RollbackDown(st, b, connectionName, k, u) ==
    IF b < 1 THEN st
    ELSE LET s1 == RollbackBatchOnConnection(st, b, connectionName, k, u)
         IN IF s1.err # "" THEN s1
            ELSE RollbackDown(s1, b - 1, connectionName, k, u)

RunAllRollbacksOnConnection(st, connectionName, k, u) ==
    LET name == DefaultOf(connectionName)
        s1 == ensureMigrationsTable(st, name, k)
        q == getLastBatch(s1, name, Forced(s1, "last" \in u))
    IN IF s1.err # "" THEN s1
       ELSE IF q.st.err = "fatal" THEN q.st
       ELSE RollbackDown(Discard(q.st, s1), q.val, name, k, u)

RollbackLastBatchOnConnection(st, connectionName, k, u) ==
    LET name == DefaultOf(connectionName)
        q == getLastBatch(st, name, Forced(st, "last" \in u))
    IN IF q.st.err = "fatal" THEN q.st
       ELSE IF q.val = 0 THEN Discard(q.st, st)
       ELSE RollbackBatchOnConnection(Discard(q.st, st), q.val, name, k, u)

\* fresh without the TRUNCATE
ExecTruncate_Skip(st, conn, u) == st

\* TRUNCATE migrations [RESTART IDENTITY]; its error is discarded
ExecTruncate(st, conn, u) ==
    IF ~st.db[conn].exists \/ "truncate" \in u THEN st
    ELSE [st EXCEPT !.db[conn].rows = <<>>]

FreshMigrationsOnConnection(st, connectionName, k, u) ==
    LET name == DefaultOf(connectionName)
        s1 == ensureMigrationsTable(st, name, k)
        s2 == GetConnection(s1, name, k)
    IN IF s1.err # "" THEN s1
       ELSE IF s2.err # "" THEN s2
       ELSE RunAllMigrationsOnConnection(ExecTruncate(s2, name, u), name, k, u)

(***************************************************************************)
(* Commands of cmd/migrate.go that do more than call one engine function   *)
(***************************************************************************)
\* rollback:batch handing its flag to revert-batch whatever its value
RollbackBatchCommand_NoDefault(st, b, connection, k, u) ==
    RollbackBatchOnConnection(st, b, connection, k, u)

\* rollback:batch: without --batch the flag is 0 and the last batch is meant
RollbackBatchCommand(st, b, connection, k, u) ==
    IF b = 0 THEN RollbackLastBatchOnConnection(st, connection, k, u)
    ELSE RollbackBatchOnConnection(st, b, connection, k, u)

\* migrate:fresh
\* the command once RunAllRollbacksOnConnection has returned with s1:
\* if err != nil { return err }; return RunAllMigrationsOnConnection(connection)
MigrateFreshAfterRollbacks(s1, connection, k, u) ==
    IF s1.err # "" THEN s1 ELSE RunAllMigrationsOnConnection(s1, connection, k, u)

MigrateFreshCommand(st, connection, k, u) ==
    MigrateFreshAfterRollbacks(RunAllRollbacksOnConnection(st, connection, k, u),
                               connection, k, u)

(***************************************************************************)
(* The state machine                                                       *)
(***************************************************************************)
\* a name GetDatabaseConfigs has no entry for
Unconfigured == "sqlite"

\* the names the operations are invoked with
CallNames == {"mysql", "postgres", Unconfigured}

\* the environment of the failures the code reports: no discarded call fails
NoDiscarded == {{}}

NoManager == [init |-> FALSE, connections |-> {}]

\* the runner is between two operations
Idle == [op |-> "idle"]

Init ==
    /\ db = [c \in Configured |-> [exists |-> FALSE, rows |-> <<>>]]
    /\ manager = NoManager
    /\ last = Idle

\* the state a run starts from
Begin == [mgr |-> manager.init, reg |-> manager.connections, db |-> db,
          def |-> DefaultName, log |-> <<>>, req |-> <<>>, n |-> 0, err |-> ""]

RECURSIVE RowCount(_, _)
RowCount(d, names) ==
    IF names = {} THEN 0
    ELSE LET c == CHOOSE x \in names : TRUE
         IN Len(d[c].rows) + RowCount(d, names \ {c})

RECURSIVE TopBatch(_, _)
TopBatch(d, names) ==
    IF names = {} THEN 0
    ELSE LET c == CHOOSE x \in names : TRUE
             m == TopBatch(d, names \ {c})
             b == MaxBatchOf(d[c].rows)
         IN IF b > m THEN b ELSE m

\* the size of the ledgers: their rows, those of a connection other than the
\* default one counted twice, plus the greatest batch number in use
Size(d) ==
    RowCount(d, Configured) + RowCount(d, Configured \ {DefaultName})
        + TopBatch(d, Configured)

\* the exploration stops at ledgers of size MaxSize
InBounds(st) == Size(st.db) <= MaxSize

\* the batch numbers revert-batch is asked for: every number a ledger within
\* the bound can hold
Batches == 1..(MaxSize - 2)

\* the run st of operation op ends: the ledgers and the registry are what it
\* left, and a fatal error ends the process, and with it the registry.
\* again: the run started right after a successful run of the same operation
\* with the same arguments
Finish(op, conn, file, batch, k, u, again, st) ==
    /\ InBounds(st)
    /\ db' = st.db
    /\ manager' = IF st.err = "fatal" THEN NoManager
                  ELSE [init |-> st.mgr, connections |-> st.reg]
    /\ last' = [op |-> op, conn |-> conn, file |-> file, batch |-> batch, k |-> k,
                u |-> u, again |-> again, pre |-> db, had |-> manager,
                log |-> st.log, req |-> st.req, err |-> st.err]

Ready == last = Idle

\* the operation that has just returned was op(conn, file) and it succeeded
JustDone(op, conn, file) ==
    /\ last.op = op
    /\ last.conn = conn
    /\ last.file = file
    /\ last.err = ""

ApplyOne ==
    \E c \in CallNames, f \in Files :
        /\ Ready
        /\ \E k \in 0..RunMigrationOnConnection(Begin, f, c, 0).n :
              Finish("apply-one", c, f, 0, k, {}, FALSE,
                     RunMigrationOnConnection(Begin, f, c, k))

RevertOne ==
    \E c \in CallNames, f \in Files :
        /\ Ready
        /\ \E k \in 0..RollbackMigrationOnConnection(Begin, f, c, 0).n :
              Finish("revert-one", c, f, 0, k, {}, FALSE,
                     RollbackMigrationOnConnection(Begin, f, c, k))

ApplyAll(U) ==
    \E c \in CallNames, u \in U :
        /\ Ready \/ JustDone("apply-all", c, <<>>)
        /\ \E k \in 0..RunAllMigrationsOnConnection(Begin, c, 0, u).n :
              Finish("apply-all", c, <<>>, 0, k, u, ~Ready,
                     RunAllMigrationsOnConnection(Begin, c, k, u))

RevertBatch(U) ==
    \E c \in CallNames, b \in Batches, u \in U :
        /\ Ready
        /\ \E k \in 0..RollbackBatchCommand(Begin, b, c, 0, u).n :
              Finish("revert-batch", c, <<>>, b, k, u, FALSE,
                     RollbackBatchCommand(Begin, b, c, k, u))

RevertLastBatch(U) ==
    \E c \in CallNames, u \in U :
        /\ Ready
        /\ \E k \in 0..RollbackBatchCommand(Begin, 0, c, 0, u).n :
              Finish("revert-last-batch", c, <<>>, 0, k, u, FALSE,
                     RollbackBatchCommand(Begin, 0, c, k, u))

RevertAll(U) ==
    \E c \in CallNames, u \in U :
        /\ Ready
        /\ \E k \in 0..RunAllRollbacksOnConnection(Begin, c, 0, u).n :
              Finish("revert-all", c, <<>>, 0, k, u, FALSE,
                     RunAllRollbacksOnConnection(Begin, c, k, u))

Fresh(U) ==
    \E c \in CallNames, u \in U :
        /\ Ready
        /\ \E k \in 0..FreshMigrationsOnConnection(Begin, c, 0, u).n :
              Finish("fresh", c, <<>>, 0, k, u, FALSE,
                     FreshMigrationsOnConnection(Begin, c, k, u))

MigrateFresh(U) ==
    \E c \in CallNames, u \in U :
        /\ Ready
        /\ \E k \in 0..MigrateFreshCommand(Begin, c, 0, u).n :
              Finish("migrate:fresh", c, <<>>, 0, k, u, FALSE,
                     MigrateFreshCommand(Begin, c, k, u))

\* the operation has returned to its caller, which goes on
Return ==
    /\ last # Idle
    /\ last' = Idle
    /\ UNCHANGED <<db, manager>>

\* the process of the runner ends; the next one starts without a manager
Exit ==
    /\ last = Idle
    /\ manager.init
    /\ manager' = NoManager
    /\ UNCHANGED <<db, last>>

Next ==
    \/ ApplyOne
    \/ RevertOne
    \/ ApplyAll(NoDiscarded)
    \/ RevertBatch(NoDiscarded)
    \/ RevertLastBatch(NoDiscarded)
    \/ RevertAll(NoDiscarded)
    \/ Fresh(NoDiscarded)
    \/ MigrateFresh(NoDiscarded)
    \/ Return
    \/ Exit

Spec == Init /\ [][Next]_vars

(***************************************************************************)
(* Two runners, each a process of its own, executing apply-all on the same *)
(* connection at the same time.  A step of a runner is one call that       *)
(* reaches the database or the file system, with the computation that      *)
(* follows it up to the next such call; the steps of the two runners       *)
(* interleave freely, the code taking no lock and opening no transaction.  *)
(* During the run, last holds the connection, the statements the database  *)
(* received, and for every runner the local variables of                   *)
(* RunAllMigrationsOnConnection:                                           *)
(*   pc     the call the runner makes next                                 *)
(*   batch  lastBatch.Batch + 1                                            *)
(*   files  the directory entries not yet looked at                        *)
(*   toRun  the names collected so far; todo: the sorted names still to    *)
(*          apply, todo[1] being name                                      *)
(*   stmts  the statements of name not yet executed                        *)
(***************************************************************************)
Runners == {1, 2}

\* the connection the two runners are started on
SharedNames == {DefaultName}

AtEntry == [pc |-> "ensure", batch |-> 0, files |-> <<>>, toRun |-> <<>>,
            todo |-> <<>>, stmts |-> <<>>, err |-> ""]

\* runner r is about to make call pc
At(r, pc) == last.op = "apply-all x2" /\ last.run[r].pc = pc

\* the run state a step starts from: held tells whether the process of the
\* runner has its connection handle already
Proc(held) ==
    [mgr |-> held, reg |-> IF held THEN {DefaultName, last.conn} ELSE {},
     db |-> db, def |-> DefaultName, log |-> last.log, req |-> <<>>, n |-> 0,
     err |-> ""]

\* the step of runner r has made its call, which left s; loc are the local
\* variables when the call succeeded; an error is returned to the caller
Step(r, s, loc) ==
    /\ InBounds(s)
    /\ db' = s.db
    /\ last' = [last EXCEPT !.log = s.log,
                            !.run[r] = IF s.err # ""
                                       THEN [last.run[r] EXCEPT !.pc = "failed",
                                                                !.err = s.err]
                                       ELSE loc]
    /\ UNCHANGED manager

\* for _, name := range toRun: the next name, or "Batch %d applied."
NextName(loc) ==
    IF loc.todo = <<>> THEN [loc EXCEPT !.pc = "done"]
    ELSE [loc EXCEPT !.pc = "read"]

\* sort.Strings(toRun) once every directory entry has been looked at
Collected(loc) ==
    IF loc.files # <<>> THEN loc
    ELSE NextName([loc EXCEPT !.todo = SortStrings(loc.toRun)])

\* the loop over parseSQLStatements(up), then the INSERT
NextStmt(loc) ==
    IF loc.stmts = <<>> THEN [loc EXCEPT !.pc = "insert"]
    ELSE [loc EXCEPT !.pc = "exec"]

RunnersStart ==
    /\ Ready
    /\ \E c \in SharedNames :
          last' = [op |-> "apply-all x2", conn |-> c, log |-> <<>>,
                   run |-> [r \in Runners |-> AtEntry]]
    /\ UNCHANGED <<db, manager>>

RunnerEnsure ==
    \E r \in Runners :
        /\ At(r, "ensure")
        /\ \E k \in 0..ensureMigrationsTable(Proc(FALSE), last.conn, 0).n :
              Step(r, ensureMigrationsTable(Proc(FALSE), last.conn, k),
                   [last.run[r] EXCEPT !.pc = "batch"])

RunnerLastBatch ==
    \E r \in Runners, k \in 0..1 :
        /\ At(r, "batch")
        /\ Step(r, QueryMaxBatch(Proc(TRUE), last.conn, k).st,
                [last.run[r] EXCEPT
                    !.pc = "dir",
                    !.batch = QueryMaxBatch(Proc(TRUE), last.conn, k).val + 1])

RunnerReadDir ==
    \E r \in Runners, k \in 0..1 :
        /\ At(r, "dir")
        /\ Step(r, ReadDir(Proc(TRUE), k).st,
                Collected([last.run[r] EXCEPT
                              !.pc = "count",
                              !.files = ReadDir(Proc(TRUE), k).files]))

\* one round of the loop over files; the error of the COUNT query is
\* discarded, and the query succeeds here
RunnerCount ==
    \E r \in Runners :
        /\ At(r, "count")
        /\ Step(r, Proc(TRUE),
                Collected([last.run[r] EXCEPT
                    !.files = Tail(@),
                    !.toRun = @ \o Pending(Proc(TRUE), last.conn,
                                           <<last.run[r].files[1]>>, {})]))

RunnerReadFile ==
    \E r \in Runners, k \in 0..1 :
        /\ At(r, "read")
        /\ Step(r, ReadFile(Proc(TRUE), last.run[r].todo[1], k).st,
                NextStmt([last.run[r] EXCEPT
                    !.stmts = parseSQLStatements(ReplaceFirst(
                        Split(ReadFile(Proc(TRUE), last.run[r].todo[1], k).data,
                              downMarker)[1], upMarker))]))

RunnerExec ==
    \E r \in Runners, k \in 0..1 :
        /\ At(r, "exec")
        /\ Step(r, ExecStmt(Proc(TRUE), last.conn, last.run[r].todo[1],
                            last.run[r].stmts[1], k),
                NextStmt([last.run[r] EXCEPT !.stmts = Tail(@)]))

RunnerInsert ==
    \E r \in Runners, k \in 0..1 :
        /\ At(r, "insert")
        /\ Step(r, ExecInsert(Proc(TRUE), last.conn, last.run[r].todo[1],
                              last.run[r].batch, k),
                NextName([last.run[r] EXCEPT !.todo = Tail(@)]))

\* both runners have returned
RunnersEnd ==
    /\ last.op = "apply-all x2"
    /\ \A r \in Runners : last.run[r].pc \in {"done", "failed"}
    /\ last' = Idle
    /\ UNCHANGED <<db, manager>>

NextRunners ==
    \/ RunnersStart
    \/ RunnerEnsure
    \/ RunnerLastBatch
    \/ RunnerReadDir
    \/ RunnerCount
    \/ RunnerReadFile
    \/ RunnerExec
    \/ RunnerInsert
    \/ RunnersEnd

SpecRunners == Init /\ [][NextRunners]_vars

(***************************************************************************)
(* Goroutines of one process calling Manager.GetConnection at the same     *)
(* time.  A step is one operation on m.mutex or one access to              *)
(* m.connections, or the dial.  During the calls, last holds the Manager   *)
(* and the callers:                                                        *)
(*   connections  m.connections: for every name the handle stored, 0 for   *)
(*                a name without entry (handles are numbered as made)      *)
(*   readers      the goroutines holding m.mutex for reading               *)
(*   writer       the goroutine holding m.mutex for writing, 0 for none    *)
(*   opened       the handles made so far, with the name each was made for *)
(*   go           for every goroutine: pc, the operation it does next;     *)
(*                name, its argument; missed, whether its lookup under     *)
(*                the read lock found no entry; conn, err, its results     *)
(***************************************************************************)
Goroutines == {1, 2, 3}

Calling == last.op = "get-connection"

\* goroutine g is about to do pc
Doing(g, pc) == Calling /\ last.go[g].pc = pc

\* conn, exists := m.connections[connectionName] in Connect, with no look
\* at the map
InMapLocked_Skip(connections, connectionName) == FALSE

\* conn, exists := m.connections[connectionName] in GetConnection
InMap(connections, connectionName) ==
    connectionName \in DOMAIN connections /\ connections[connectionName] # 0

\* conn, exists := m.connections[connectionName] in Connect
InMapLocked(connections, connectionName) ==
    connectionName \in DOMAIN connections /\ connections[connectionName] # 0

\* goroutine g goes on with the local variables loc
Goes(g, loc) == [last EXCEPT !.go[g] = loc]

CallersStart ==
    /\ Ready
    /\ \E names \in [Goroutines -> CallNames] :
          last' = [op |-> "get-connection",
                   connections |-> [c \in Configured |-> 0],
                   readers |-> {}, writer |-> 0, opened |-> {},
                   go |-> [g \in Goroutines |->
                             [pc |-> "rlock", name |-> names[g], missed |-> FALSE,
                              conn |-> 0, err |-> ""]]]
    /\ UNCHANGED <<db, manager>>

\* m.mutex.RLock()
RLock ==
    \E g \in Goroutines :
        /\ Doing(g, "rlock")
        /\ last.writer = 0
        /\ last' = [Goes(g, [last.go[g] EXCEPT !.pc = "lookup"]) EXCEPT
                       !.readers = @ \cup {g}]
        /\ UNCHANGED <<db, manager>>

\* if conn, exists := m.connections[connectionName]; exists
Lookup ==
    \E g \in Goroutines :
        /\ Doing(g, "lookup")
        /\ last' = IF InMap(last.connections, last.go[g].name)
                   THEN Goes(g, [last.go[g] EXCEPT
                                    !.pc = "runlock",
                                    !.conn = last.connections[last.go[g].name]])
                   ELSE Goes(g, [last.go[g] EXCEPT !.pc = "runlock",
                                                   !.missed = TRUE])
        /\ UNCHANGED <<db, manager>>

\* m.mutex.RUnlock(), then return conn, nil or return m.Connect(connectionName)
RUnlock ==
    \E g \in Goroutines :
        /\ Doing(g, "runlock")
        /\ last' = [Goes(g, [last.go[g] EXCEPT
                               !.pc = IF last.go[g].missed THEN "lock"
                                      ELSE "returned"]) EXCEPT
                       !.readers = @ \ {g}]
        /\ UNCHANGED <<db, manager>>

\* m.mutex.Lock()
Lock ==
    \E g \in Goroutines :
        /\ Doing(g, "lock")
        /\ last.writer = 0
        /\ last.readers = {}
        /\ last' = [Goes(g, [last.go[g] EXCEPT !.pc = "recheck"]) EXCEPT
                       !.writer = g]
        /\ UNCHANGED <<db, manager>>

\* Connect: return the existing connection, or look for the configuration
Recheck ==
    \E g \in Goroutines :
        /\ Doing(g, "recheck")
        /\ last' = IF InMapLocked(last.connections, last.go[g].name)
                   THEN Goes(g, [last.go[g] EXCEPT
                                    !.pc = "unlock",
                                    !.conn = last.connections[last.go[g].name]])
                   ELSE IF last.go[g].name \notin Configured
                   THEN Goes(g, [last.go[g] EXCEPT !.pc = "unlock",
                                                   !.err = "config"])
                   ELSE Goes(g, [last.go[g] EXCEPT !.pc = "open"])
        /\ UNCHANGED <<db, manager>>

\* gorm.Open, db.DB(), sqlDB.Ping(): the handle is made, or the error returned
Open ==
    \E g \in Goroutines, ok \in BOOLEAN :
        /\ Doing(g, "open")
        /\ last' = IF ok
                   THEN [Goes(g, [last.go[g] EXCEPT
                                     !.pc = "store",
                                     !.conn = Cardinality(last.opened) + 1]) EXCEPT
                            !.opened = @ \cup {<<last.go[g].name,
                                                 Cardinality(last.opened) + 1>>}]
                   ELSE Goes(g, [last.go[g] EXCEPT !.pc = "unlock", !.err = "dial"])
        /\ UNCHANGED <<db, manager>>

\* m.connections[connectionName] = connection
Store ==
    \E g \in Goroutines :
        /\ Doing(g, "store")
        /\ last' = [Goes(g, [last.go[g] EXCEPT !.pc = "unlock"]) EXCEPT
                       !.connections[last.go[g].name] = last.go[g].conn]
        /\ UNCHANGED <<db, manager>>

\* defer m.mutex.Unlock()
Unlock ==
    \E g \in Goroutines :
        /\ Doing(g, "unlock")
        /\ last' = [Goes(g, [last.go[g] EXCEPT !.pc = "returned"]) EXCEPT
                       !.writer = 0]
        /\ UNCHANGED <<db, manager>>

\* every goroutine has its answer
CallersEnd ==
    /\ Calling
    /\ \A g \in Goroutines : last.go[g].pc = "returned"
    /\ last' = Idle
    /\ UNCHANGED <<db, manager>>

NextCallers ==
    \/ CallersStart
    \/ RLock
    \/ Lookup
    \/ RUnlock
    \/ Lock
    \/ Recheck
    \/ Open
    \/ Store
    \/ Unlock
    \/ CallersEnd

SpecCallers == Init /\ [][NextCallers]_vars

(***************************************************************************)
(* The runner in an environment where the calls whose error the code       *)
(* discards can fail too                                                   *)
(***************************************************************************)
\* the call sites whose error is discarded: last, _ := getLastBatch (revert-all
\* and revert-last-batch), the COUNT query of apply-all, the query for the rows
\* of a batch in revert-batch, the TRUNCATE of fresh
Sites == {"last", "count", "rows", "truncate"}

\* the sets of sites that fail during one run: none, or one of them
Discarded == {{}} \cup {{s} : s \in Sites}

NextFaults ==
    \/ ApplyOne
    \/ RevertOne
    \/ ApplyAll(Discarded)
    \/ RevertBatch(Discarded)
    \/ RevertLastBatch(Discarded)
    \/ RevertAll(Discarded)
    \/ Fresh(Discarded)
    \/ MigrateFresh(Discarded)
    \/ Return
    \/ Exit

SpecFaults == Init /\ [][NextFaults]_vars

(***************************************************************************)
(* The operations called without a connection name (RunMigration,          *)
(* RollbackMigration, RunAllMigrations, ...), each in a process of its own *)
(* whose environment sets DB_CONNECTION                                    *)
(***************************************************************************)
\* the values of DB_CONNECTION: unset or "mysql", and "postgres"
EnvDefaults == {"mysql", "postgres"}

\* the state a run starts from in a new process with DB_CONNECTION = d
BeginIn(d) == [mgr |-> FALSE, reg |-> {}, db |-> db, def |-> d,
               log |-> <<>>, req |-> <<>>, n |-> 0, err |-> ""]

\* the run st of operation op ends, and its process with it
FinishIn(d, op, file, batch, k, st) ==
    /\ InBounds(st)
    /\ db' = st.db
    /\ manager' = NoManager
    /\ last' = [op |-> op, conn |-> "", def |-> d, file |-> file, batch |-> batch,
                k |-> k, u |-> {}, again |-> FALSE, pre |-> db, had |-> NoManager,
                log |-> st.log, req |-> st.req, err |-> st.err]

RunMigration ==
    \E d \in EnvDefaults, f \in Files :
        /\ Ready
        /\ \E k \in 0..RunMigrationOnConnection(BeginIn(d), f, "", 0).n :
              FinishIn(d, "apply-one", f, 0, k,
                       RunMigrationOnConnection(BeginIn(d), f, "", k))

RollbackMigration ==
    \E d \in EnvDefaults, f \in Files :
        /\ Ready
        /\ \E k \in 0..RollbackMigrationOnConnection(BeginIn(d), f, "", 0).n :
              FinishIn(d, "revert-one", f, 0, k,
                       RollbackMigrationOnConnection(BeginIn(d), f, "", k))

RunAllMigrations ==
    \E d \in EnvDefaults :
        /\ Ready
        /\ \E k \in 0..RunAllMigrationsOnConnection(BeginIn(d), "", 0, {}).n :
              FinishIn(d, "apply-all", <<>>, 0, k,
                       RunAllMigrationsOnConnection(BeginIn(d), "", k, {}))

RollbackBatch ==
    \E d \in EnvDefaults, b \in Batches :
        /\ Ready
        /\ \E k \in 0..RollbackBatchOnConnection(BeginIn(d), b, "", 0, {}).n :
              FinishIn(d, "revert-batch", <<>>, b, k,
                       RollbackBatchOnConnection(BeginIn(d), b, "", k, {}))

RollbackLastBatch ==
    \E d \in EnvDefaults :
        /\ Ready
        /\ \E k \in 0..RollbackLastBatchOnConnection(BeginIn(d), "", 0, {}).n :
              FinishIn(d, "revert-last-batch", <<>>, 0, k,
                       RollbackLastBatchOnConnection(BeginIn(d), "", k, {}))

RunAllRollbacks ==
    \E d \in EnvDefaults :
        /\ Ready
        /\ \E k \in 0..RunAllRollbacksOnConnection(BeginIn(d), "", 0, {}).n :
              FinishIn(d, "revert-all", <<>>, 0, k,
                       RunAllRollbacksOnConnection(BeginIn(d), "", k, {}))

FreshMigrations ==
    \E d \in EnvDefaults :
        /\ Ready
        /\ \E k \in 0..FreshMigrationsOnConnection(BeginIn(d), "", 0, {}).n :
              FinishIn(d, "fresh", <<>>, 0, k,
                       FreshMigrationsOnConnection(BeginIn(d), "", k, {}))

NextDefault ==
    \/ RunMigration
    \/ RollbackMigration
    \/ RunAllMigrations
    \/ RollbackBatch
    \/ RollbackLastBatch
    \/ RunAllRollbacks
    \/ FreshMigrations
    \/ Return

SpecDefault == Init /\ [][NextDefault]_vars

(***************************************************************************)
(* The parser alone: parseMigrationFile applied to every migration text of *)
(* at most MaxText tokens                                                  *)
(***************************************************************************)
\* what a text is made of: the markers, the separator, the blank, SQL words
Tokens == {upMarker, downMarker, ";", " ", "a", "b"}

\* the texts of n tokens
Texts(n) == [1..n -> Tokens]

Parse ==
    /\ Ready
    /\ \E n \in 0..MaxText : \E content \in Texts(n) :
          last' = [op |-> "parse", text |-> content,
                   up |-> parseMigrationFile(content).up,
                   down |-> parseMigrationFile(content).down]
    /\ UNCHANGED <<db, manager>>

NextParse ==
    \/ Parse
    \/ Return

SpecParse == Init /\ [][NextParse]_vars

(***************************************************************************)
(* Vocabulary of the properties                                            *)
(***************************************************************************)
\* the ledger rows of connection c in d; a name without a configuration has
\* no database and so no rows
Ledger(d, c) == IF c \in Configured THEN d[c].rows ELSE <<>>

\* the entries of the log of the last run that are calls of one kind
Calls(kind) == SelectSeq(last.log, LAMBDA e : e.call = kind)

UpsOf(f) == parseMigrationFile(FileText[f]).up

DownsOf(f) == parseMigrationFile(FileText[f]).down

\* the entries ex are the statements stmts of file f on connection c, in order
AreStatements(ex, stmts, f, c) ==
    /\ Len(ex) = Len(stmts)
    /\ \A i \in 1..Len(ex) :
          ex[i].sql = stmts[i] /\ ex[i].file = f /\ ex[i].conn = c

AllOk(ex) == \A i \in 1..Len(ex) : ex[i].ok

\* the greatest batch number among rows, 0 when there is none
GreatestBatch(rows) ==
    IF rows = <<>> THEN 0
    ELSE CHOOSE m \in {rows[i].batch : i \in 1..Len(rows)} :
            \A i \in 1..Len(rows) : rows[i].batch <= m

\* the rows of the ledger that name file f
RowsOf(rows, f) == SelectSeq(rows, LAMBDA r : r.filename = f)

\* the ledgers of the connections other than c are as before the run
OthersUntouched(c) == \A o \in Configured \ {c} : db[o] = last.pre[o]

\* the ledger rows of every connection are as before the run
LedgersUnchanged == \A c \in Configured : Ledger(db, c) = Ledger(last.pre, c)

(***************************************************************************)
(* C1: an apply-one whose apply statements all succeed issues exactly one  *)
(* ledger insert, of (filename, b) on that connection, with b the greatest *)
(* batch of the ledger at the start of the call plus 1 (1 on an empty      *)
(* ledger), and no other ledger write; once that insert is done the ledger *)
(* is the ledger of the start followed by the row (filename, b), the call  *)
(* returns nil and isApplied(filename) holds.                              *)
(***************************************************************************)
C1_ApplyOneRecords ==
    (/\ last.op = "apply-one"
     /\ AreStatements(Calls("exec"), UpsOf(last.file), last.file, last.conn)
     /\ AllOk(Calls("exec")))
    => LET c == last.conn
           b == GreatestBatch(Ledger(last.pre, c)) + 1
           ins == Calls("insert")
       IN /\ Len(ins) = 1
          /\ ins[1].file = last.file /\ ins[1].batch = b /\ ins[1].conn = c
          /\ Calls("delete") = <<>>
          /\ OthersUntouched(c)
          /\ ins[1].ok =>
                /\ last.err = ""
                /\ Ledger(db, c) =
                     Append(Ledger(last.pre, c), [filename |-> last.file, batch |-> b])
                /\ RowsOf(Ledger(db, c), last.file) # <<>>
          /\ ~ins[1].ok => last.err # "" /\ LedgersUnchanged

\* an apply-one has succeeded on a ledger that held two rows of one batch
C1_Witness ==
    /\ last.op = "apply-one"
    /\ last.err = ""
    /\ Len(Ledger(last.pre, last.conn)) = 2
    /\ GreatestBatch(Ledger(last.pre, last.conn)) = 1
    /\ Len(Ledger(db, last.conn)) = 3

(***************************************************************************)
(* C2: when an apply statement of apply-one fails, no later statement is   *)
(* executed and no ledger write is made, the error of that statement is    *)
(* returned, and the ledger rows are those of before the call.             *)
(***************************************************************************)
C2_ApplyOneAborts ==
    (/\ last.op = "apply-one"
     /\ \E i \in 1..Len(last.log) : last.log[i].call = "exec" /\ ~last.log[i].ok)
    => LET ex == Calls("exec")
           ups == UpsOf(last.file)
       IN /\ last.log[Len(last.log)].call = "exec"
          /\ ~last.log[Len(last.log)].ok
          /\ \A i \in 1..(Len(last.log) - 1) : last.log[i].ok
          /\ Len(ex) <= Len(ups)
          /\ AreStatements(ex, SubSeq(ups, 1, Len(ex)), last.file, last.conn)
          /\ Calls("insert") = <<>>
          /\ last.err = "exec"
          /\ LedgersUnchanged

\* the first of two apply statements has failed, on a ledger with rows
C2_Witness ==
    /\ last.op = "apply-one"
    /\ last.err = "exec"
    /\ Len(Calls("exec")) = 1
    /\ Len(UpsOf(last.file)) = 2
    /\ Ledger(last.pre, last.conn) # <<>>

\* the ledger rows that the inserts ins which succeeded have written, in order
RowsWritten(ins) ==
    LET done == SelectSeq(ins, LAMBDA e : e.ok)
    IN [i \in 1..Len(done) |-> [filename |-> done[i].file, batch |-> done[i].batch]]

\* the filenames of S in ascending byte-wise order
Ascending(S) ==
    CHOOSE q \in [1..Cardinality(S) -> S] :
        \A i, j \in 1..Cardinality(S) : i < j => StrLess(q[i], q[j])

\* the apply statements of the files of names, in that order
RECURSIVE UpsInOrder(_)
UpsInOrder(names) ==
    IF names = <<>> THEN <<>>
    ELSE [i \in 1..Len(UpsOf(names[1])) |->
             [file |-> names[1], sql |-> UpsOf(names[1])[i]]]
         \o UpsInOrder(Tail(names))

\* the statements of change-sets executed by the last run, in order
Executed ==
    LET ex == Calls("exec")
    IN [i \in 1..Len(ex) |-> [file |-> ex[i].file, sql |-> ex[i].sql]]

IsPrefix(s, t) == Len(s) <= Len(t) /\ s = SubSeq(t, 1, Len(s))

\* the available files that have no row in the ledger the last run started on
PendingAtStart == {f \in Files : RowsOf(Ledger(last.pre, last.conn), f) = <<>>}

(***************************************************************************)
(* C3: every ledger insert of one apply-all carries the same batch number, *)
(* the greatest batch of the ledger at the start of the call plus 1, and   *)
(* the ledger after the call is the ledger of the start followed by the    *)
(* rows of the inserts that succeeded.                                     *)
(***************************************************************************)
C3_ApplyAllOneBatch ==
    last.op = "apply-all" =>
        LET c == last.conn
            b == GreatestBatch(Ledger(last.pre, c)) + 1
            ins == Calls("insert")
        IN /\ \A i \in 1..Len(ins) : ins[i].batch = b /\ ins[i].conn = c
           /\ Ledger(db, c) = Ledger(last.pre, c) \o RowsWritten(ins)

\* an apply-all has recorded two change-sets on a ledger that held batch 1
C3_Witness ==
    /\ last.op = "apply-all"
    /\ last.err = ""
    /\ GreatestBatch(Ledger(last.pre, last.conn)) = 1
    /\ Len(RowsWritten(Calls("insert"))) = 2

C5_ApplyAllStopsAtFailure ==
    (/\ last.op = "apply-all"
     /\ \E i \in 1..Len(last.log) : ~last.log[i].ok)
    => LET c == last.conn
           n == Len(last.log)
           bad == last.log[n]
       IN /\ ~bad.ok
          /\ \A i \in 1..(n - 1) : last.log[i].ok
          /\ last.err = CASE bad.call = "read" -> "read"
                           [] bad.call = "exec" -> "exec"
                           [] OTHER -> "record"
          /\ RowsOf(Ledger(db, c), bad.file) = <<>>
          /\ Ledger(db, c) = Ledger(last.pre, c) \o RowsWritten(Calls("insert"))
          /\ \A i \in 1..(n - 1) :
                last.log[i].call = "insert" => RowsOf(Ledger(db, c), last.log[i].file) # <<>>

\* the second of three pending change-sets has failed after the first was
\* recorded
C5_Witness ==
    /\ last.op = "apply-all"
    /\ last.err \in {"read", "exec", "record"}
    /\ PendingAtStart = Files
    /\ Len(RowsWritten(Calls("insert"))) = 1

EntriesDesc(rows, b) ==
    LET sel == SelectSeq(rows, LAMBDA r : r.batch = b)
    IN [i \in 1..Len(sel) |-> sel[Len(sel) + 1 - i].filename]

\* the log of the last run has a call that failed
SomeCallFailed == \E i \in 1..Len(last.log) : ~last.log[i].ok

\* the failed call is the last call of the run
FailedCallIsLast ==
    /\ ~last.log[Len(last.log)].ok
    /\ \A i \in 1..(Len(last.log) - 1) : last.log[i].ok

(***************************************************************************)
(* C7: revert-one executes the revert statements of the file in file       *)
(* order; the ledger delete is issued only after all of them succeeded,    *)
(* and once done leaves no row of that filename and every other row in     *)
(* place; when a revert statement fails it is the last call made, its      *)
(* error is returned and the ledger rows are those of before the call.     *)
(***************************************************************************)
C7_RevertOneForgetsLast ==
    last.op = "revert-one" =>
        LET c == last.conn
            f == last.file
            ex == Calls("exec")
            del == Calls("delete")
            downs == DownsOf(f)
        IN /\ Len(ex) <= Len(downs)
           /\ AreStatements(ex, SubSeq(downs, 1, Len(ex)), f, c)
           /\ del # <<>> =>
                 /\ Len(del) = 1 /\ del[1].file = f /\ del[1].conn = c
                 /\ last.log[Len(last.log)].call = "delete"
                 /\ Len(ex) = Len(downs) /\ AllOk(ex)
                 /\ del[1].ok =>
                       /\ last.err = ""
                       /\ Ledger(db, c) =
                            SelectSeq(Ledger(last.pre, c), LAMBDA r : r.filename # f)
                       /\ OthersUntouched(c)
           /\ ~AllOk(ex) =>
                 /\ FailedCallIsLast
                 /\ del = <<>>
                 /\ last.err = "exec"
                 /\ LedgersUnchanged

\* the second of the two revert statements of a recorded change-set has failed
C7_Witness ==
    /\ last.op = "revert-one"
    /\ last.err = "exec"
    /\ Len(Calls("exec")) = 2
    /\ RowsOf(Ledger(last.pre, last.conn), last.file) # <<>>

(***************************************************************************)
(* C8: for two change-sets A and B recorded in this order in batch b,      *)
(* entriesForBatch(b) lists B before A, and in revert-batch(b) every       *)
(* revert statement of A is executed after all revert statements of B      *)
(* have succeeded and the ledger row of B has been deleted.                *)
(***************************************************************************)
C8_RevertBatchNewestFirst ==
    last.op = "revert-batch" =>
        LET c == last.conn
            pre == Ledger(last.pre, c)
            ents == SelectBatchDesc(pre, last.batch)
        IN \A i, j \in 1..Len(pre) :
             (/\ i < j
              /\ pre[i].batch = last.batch /\ pre[j].batch = last.batch
              /\ pre[i].filename # pre[j].filename)
             => LET A == pre[i].filename
                    B == pre[j].filename
                IN /\ \E x, y \in 1..Len(ents) : x < y /\ ents[x] = B /\ ents[y] = A
                   /\ \A p \in 1..Len(last.log) :
                         (last.log[p].call = "exec" /\ last.log[p].file = A)
                         => \E q \in 1..(p - 1) :
                              /\ last.log[q].call = "delete"
                              /\ last.log[q].file = B
                              /\ last.log[q].ok
                              /\ LET exB == SelectSeq(SubSeq(last.log, 1, q),
                                             LAMBDA e : e.call = "exec" /\ e.file = B)
                                 IN AreStatements(exB, DownsOf(B), B, c) /\ AllOk(exB)

\* a batch holding a then a-b has been reverted: a-b's statement, then a's two
C8_Witness ==
    /\ last.op = "revert-batch"
    /\ last.err = ""
    /\ Ledger(last.pre, last.conn) =
         <<[filename |-> NameA, batch |-> last.batch],
           [filename |-> NameAB, batch |-> last.batch]>>
    /\ Len(Calls("exec")) = 3
    /\ Len(Calls("delete")) = 2

(***************************************************************************)
(* C9: when a revert-one fails inside revert-batch(b), the failing call is *)
(* the last call made and its error is returned; the change-sets of batch  *)
(* b visited before it have no ledger row left, and the rows of batch b of *)
(* the failing change-set and of those not yet visited are still there.    *)
(***************************************************************************)
C9_RevertBatchStopsAtFailure ==
    (last.op = "revert-batch" /\ SomeCallFailed) =>
        LET c == last.conn
            b == last.batch
            ents == EntriesDesc(Ledger(last.pre, c), b)
            del == SelectSeq(last.log, LAMBDA e : e.call = "delete" /\ e.ok)
            j == Len(del)
            bad == last.log[Len(last.log)]
            InBatch(rows) == SelectSeq(rows, LAMBDA r : r.batch = b)
        IN /\ FailedCallIsLast
           /\ last.err = CASE bad.call = "read" -> "read"
                            [] bad.call = "exec" -> "exec"
                            [] OTHER -> "delete"
           /\ j < Len(ents)
           /\ bad.file = ents[j + 1]
           /\ \A i \in 1..j : del[i].file = ents[i] /\ RowsOf(Ledger(db, c), ents[i]) = <<>>
           /\ InBatch(Ledger(db, c)) =
                SubSeq(InBatch(Ledger(last.pre, c)), 1, Len(ents) - j)

\* of a batch of three change-sets the latest was reverted, the revert of the
\* second failed and the first was not visited
C9_Witness ==
    /\ last.op = "revert-batch"
    /\ SomeCallFailed
    /\ Len(EntriesDesc(Ledger(last.pre, last.conn), last.batch)) = 3
    /\ Len(SelectSeq(last.log, LAMBDA e : e.call = "delete" /\ e.ok)) = 1

(***************************************************************************)
(* C10: revert-batch(b) leaves every ledger row of a batch other than b    *)
(* present and unchanged, and executes revert statements only of           *)
(* change-sets recorded in batch b.                                        *)
(***************************************************************************)
C10_RevertBatchOnlyItsBatch ==
    last.op = "revert-batch" =>
        LET c == last.conn
            b == last.batch
            Other(rows) == SelectSeq(rows, LAMBDA r : r.batch # b)
            ex == Calls("exec")
        IN /\ Other(Ledger(db, c)) = Other(Ledger(last.pre, c))
           /\ \A i \in 1..Len(ex) :
                 \E r \in 1..Len(Ledger(last.pre, c)) :
                    /\ Ledger(last.pre, c)[r].filename = ex[i].file
                    /\ Ledger(last.pre, c)[r].batch = b

\* the state the last run started from
Started ==
    [mgr |-> last.had.init, reg |-> last.had.connections, db |-> last.pre,
     def |-> DefaultName, log |-> <<>>, req |-> <<>>, n |-> 0, err |-> ""]

VisitedIn(rows, f) == GreatestBatch(RowsOf(rows, f))

(***************************************************************************)
(* C12: revert-all works through the batches in descending order: the      *)
(* files its calls are made for come in descending order of their batch;   *)
(* and when a call fails in batch b, no revert statement of a smaller      *)
(* batch has been executed and the ledger rows of the batches smaller than *)
(* b are as before the call.                                               *)
(***************************************************************************)
C12_RevertAllNewestBatchFirst ==
    last.op = "revert-all" =>
        LET c == last.conn
            pre == Ledger(last.pre, c)
            n == Len(last.log)
            Older(rows, b) == SelectSeq(rows, LAMBDA r : r.batch < b)
        IN /\ \A i, j \in 1..n :
                 i < j => VisitedIn(pre, last.log[i].file) >= VisitedIn(pre, last.log[j].file)
           /\ SomeCallFailed =>
                 LET b == VisitedIn(pre, last.log[n].file)
                 IN /\ FailedCallIsLast
                    /\ last.err # ""
                    /\ \A i \in 1..n : VisitedIn(pre, last.log[i].file) >= b
                    /\ Older(Ledger(db, c), b) = Older(pre, b)

C15_FreshRunsNoRevert ==
    last.op \in {"fresh", "migrate:fresh"} =>
        /\ \A i \in 1..Len(last.log) :
              last.log[i].call = "exec" =>
                 /\ last.log[i].file \in Files
                 /\ \A j \in 1..Len(DownsOf(last.log[i].file)) :
                       last.log[i].sql # DownsOf(last.log[i].file)[j]
        /\ Calls("delete") = <<>>

(***************************************************************************)
(* C16: in every reachable state, after any sequence of apply-one,         *)
(* apply-all, revert-one, revert-batch, revert-last-batch, revert-all and  *)
(* fresh by a single runner, each filename appears in at most one row of   *)
(* the ledger of a connection.                                             *)
(***************************************************************************)
C16_FilenameOnce ==
    \A c \in Configured :
        \A i, j \in 1..Len(db[c].rows) :
            db[c].rows[i].filename = db[c].rows[j].filename => i = j

(***************************************************************************)
(* C17: in every reachable state under a single runner the batch values of *)
(* the rows of a ledger are non-decreasing in insertion order, every batch *)
(* value is at least 1, and lastBatch() returns the greatest batch of the  *)
(* rows, 0 when the ledger is empty.                                       *)
(***************************************************************************)
C17_BatchesMonotone ==
    \A c \in Configured :
        LET rows == db[c].rows
            q == getLastBatch(Begin, c, 0)
        IN /\ \A i, j \in 1..Len(rows) : i < j => rows[i].batch <= rows[j].batch
           /\ \A i \in 1..Len(rows) : rows[i].batch >= 1
           /\ rows # <<>> => db[c].exists
           /\ db[c].exists => q.st.err = "" /\ q.val = GreatestBatch(rows)

\* an apply-all has added two rows of batch 2 behind a row of batch 1, and
\* lastBatch() is read on that ledger
C17_Witness ==
    /\ last.op = "apply-all"
    /\ last.err = ""
    /\ last.conn \in Configured
    /\ LET rows == Ledger(db, last.conn)
       IN /\ Len(rows) = 3
          /\ rows[1].batch = 1 /\ rows[2].batch = 2 /\ rows[3].batch = 2
          /\ getLastBatch(Begin, last.conn, 0).val = 2

\* the positions of token x in text s
PositionsOf(s, x) == {i \in 1..Len(s) : s[i] = x}

\* text s without its i-th token
Without(s, i) == SubSeq(s, 1, i - 1) \o SubSeq(s, i + 1, Len(s))

\* p without its leading and trailing blanks
Trimmed(p) ==
    LET nb == {i \in 1..Len(p) : p[i] # " "}
    IN IF nb = {} THEN <<>>
       ELSE SubSeq(p, CHOOSE i \in nb : \A j \in nb : i <= j,
                      CHOOSE i \in nb : \A j \in nb : j <= i)

\* the j-th of the candidates the separators cut part s into, trimmed
Candidate(s, j) ==
    LET semis == PositionsOf(s, ";")
        cut(h) == IF h = 0 THEN 0
                  ELSE IF h = Cardinality(semis) + 1 THEN Len(s) + 1
                  ELSE CHOOSE i \in semis : Cardinality({m \in semis : m <= i}) = h
    IN Trimmed(SubSeq(s, cut(j - 1) + 1, cut(j) - 1))

\* the candidates of part s that are not empty after trimming
NonEmpty(s) ==
    {j \in 1..(Cardinality(PositionsOf(s, ";")) + 1) : Candidate(s, j) # <<>>}

\* out is the non-empty statements of part s, each trimmed, in file order
AreStatementsOf(out, s) ==
    /\ Len(out) = Cardinality(NonEmpty(s))
    /\ \A j \in NonEmpty(s) :
          out[Cardinality({h \in NonEmpty(s) : h <= j})] = Candidate(s, j)

\* the UP marker once and the DOWN marker at most once, UP before DOWN
WellFormed(s) ==
    /\ Cardinality(PositionsOf(s, upMarker)) = 1
    /\ Cardinality(PositionsOf(s, downMarker)) <= 1
    /\ \A i \in PositionsOf(s, upMarker), j \in PositionsOf(s, downMarker) : i < j

\* what precedes the DOWN marker (all of s without one), the UP marker removed
UpPartOf(s) ==
    LET before == IF PositionsOf(s, downMarker) = {} THEN s
                  ELSE SubSeq(s, 1, (CHOOSE j \in PositionsOf(s, downMarker) : TRUE) - 1)
    IN Without(before, CHOOSE i \in PositionsOf(s, upMarker) : TRUE)

\* what follows the DOWN marker, nothing without one
DownPartOf(s) ==
    IF PositionsOf(s, downMarker) = {} THEN <<>>
    ELSE SubSeq(s, (CHOOSE j \in PositionsOf(s, downMarker) : TRUE) + 1, Len(s))

(***************************************************************************)
(* C18: for a text with the UP marker once and then the DOWN marker once,  *)
(* whose up part holds N and whose down part holds M non-empty statements  *)
(* separated by ";", parse returns exactly the N apply statements and the  *)
(* M revert statements, each the trimmed source statement, in file order;  *)
(* candidates empty after trimming are dropped; a text without the DOWN    *)
(* marker yields no revert statement.                                      *)
(***************************************************************************)
C18_ParseRoundTrip ==
    (last.op = "parse" /\ WellFormed(last.text)) =>
        /\ AreStatementsOf(last.up, UpPartOf(last.text))
        /\ AreStatementsOf(last.down, DownPartOf(last.text))
        /\ PositionsOf(last.text, downMarker) = {} => last.down = <<>>

\* a text with both markers has been parsed: two different apply statements,
\* one of them written with a blank around it, and one revert statement
C18_Witness ==
    /\ last.op = "parse"
    /\ WellFormed(last.text)
    /\ PositionsOf(last.text, downMarker) # {}
    /\ Len(last.up) = 2 /\ last.up[1] # last.up[2]
    /\ Len(last.down) = 1
    /\ PositionsOf(UpPartOf(last.text), " ") # {}

\* the last transition was a run of an operation of the engine
Ran == last.op \notin {"idle", "parse"}

\* the names the registry holds a connection for just before request i of the
\* last run: those it held at the start and those dialled with success since
HeldBefore(i) ==
    last.had.connections \cup
        {last.req[j].name : j \in {h \in 1..(i - 1) : last.req[h].dialled /\ last.req[h].ok}}

(***************************************************************************)
(* C19: the registry dials a name only on a request for a configured name  *)
(* it holds no connection for; once a request has succeeded every later    *)
(* request for that name is answered from the registry without dialling;   *)
(* the registry holds exactly the names requested with success, and none   *)
(* for a name that was never requested.                                    *)
(***************************************************************************)
C19_ConnectOnce ==
    /\ manager.connections \subseteq CallNames \cup {DefaultName}
    /\ Ran =>
          /\ \A i \in 1..Len(last.req) :
                LET r == last.req[i]
                IN /\ r.dialled <=> (r.name \notin HeldBefore(i) /\ r.name \in Configured)
                   /\ r.name \in HeldBefore(i) => r.ok
          /\ last.err # "fatal" => manager.connections = HeldBefore(Len(last.req) + 1)
          /\ manager.connections \subseteq
                last.had.connections \cup {last.req[i].name : i \in 1..Len(last.req)}

\* a run on a registry without connections asked for a name other than the
\* default one several times: the first request dialled, the later did not
C19_Witness ==
    /\ Ran
    /\ last.had.connections = {}
    /\ \E i, j \in 1..Len(last.req) :
          /\ i < j
          /\ last.req[i].name = "postgres" /\ last.req[j].name = "postgres"
          /\ last.req[i].dialled /\ last.req[i].ok
          /\ ~last.req[j].dialled /\ last.req[j].ok
    /\ manager.connections = {"mysql", "postgres"}

\* the last run could not get the connection it was called for: the name has
\* no configuration, or its dial failed
NoConnection ==
    \/ last.conn \notin Configured
    \/ \E i \in 1..Len(last.req) :
          last.req[i].name = last.conn /\ last.req[i].dialled /\ ~last.req[i].ok

(***************************************************************************)
(* C20: when the requested connection name has no configuration, or its    *)
(* connection cannot be established, every operation of the engine returns *)
(* an error, having executed no statement of a change-set and made no      *)
(* ledger write, and the registry gains no entry for that name.            *)
(***************************************************************************)
C20_NoConnectionNoEffect ==
    (Ran /\ NoConnection) =>
        /\ last.err # ""
        /\ Calls("exec") = <<>>
        /\ Calls("insert") = <<>>
        /\ Calls("delete") = <<>>
        /\ db = last.pre
        /\ last.conn \notin manager.connections

\* the statements and ledger writes of the last run
Writes ==
    SelectSeq(last.log, LAMBDA e : e.call \in {"exec", "insert", "delete"})

(***************************************************************************)
(* C21: ledgers are per connection.  An operation invoked with connection  *)
(* name X sends its statements and ledger writes to X only; the migrations *)
(* table and the rows of every other connection Y are as before, so that a *)
(* change-set applied on X and pending on Y is still pending on Y.         *)
(***************************************************************************)
C21_LedgerPerConnection ==
    Ran =>
        /\ \A i \in 1..Len(Writes) : Writes[i].conn = last.conn
        /\ \A y \in Configured \ {last.conn} :
              /\ db[y] = last.pre[y]
              /\ \A f \in Files :
                    RowsOf(last.pre[y].rows, f) = <<>> => RowsOf(db[y].rows, f) = <<>>

\* a change-set has been applied on postgres while the ledger of mysql held a
\* row of another change-set: it is recorded on postgres and pending on mysql
C21_Witness ==
    /\ last.op = "apply-one"
    /\ last.conn = "postgres"
    /\ last.err = ""
    /\ RowsOf(db["postgres"].rows, last.file) # <<>>
    /\ db["mysql"].rows # <<>>
    /\ RowsOf(db["mysql"].rows, last.file) = <<>>

\* the newest row of the ledger the last run started on names the file of the
\* run: the file was applied and nothing was applied or reverted since
AppliedJustBefore ==
    LET pre == Ledger(last.pre, last.conn)
    IN pre # <<>> /\ pre[Len(pre)].filename = last.file

(***************************************************************************)
(* C25: a successful apply-one of a file whose row of an earlier           *)
(* successful apply-one is still the newest of the ledger makes no         *)
(* isApplied check: it executes the apply statements again and adds a      *)
(* second row with that filename, its batch one higher than that of the    *)
(* first.                                                                  *)
(***************************************************************************)
C25_ApplyOneTwice ==
    (last.op = "apply-one" /\ last.err = "" /\ AppliedJustBefore) =>
        LET pre == Ledger(last.pre, last.conn)
            now == Ledger(db, last.conn)
        IN /\ AreStatements(Calls("exec"), UpsOf(last.file), last.file, last.conn)
           /\ Len(now) = Len(pre) + 1
           /\ SubSeq(now, 1, Len(pre)) = pre
           /\ now[Len(now)] =
                 [filename |-> last.file, batch |-> pre[Len(pre)].batch + 1]
           /\ Len(RowsOf(now, last.file)) = Len(RowsOf(pre, last.file)) + 1
           /\ Len(RowsOf(now, last.file)) >= 2

\* apply-one of file a has succeeded on the ledger <<(a, 1)>>
C25_Witness ==
    /\ last.op = "apply-one"
    /\ last.err = ""
    /\ last.file = NameA
    /\ Ledger(last.pre, last.conn) = <<[filename |-> NameA, batch |-> 1]>>
    /\ Ledger(db, last.conn) =
          <<[filename |-> NameA, batch |-> 1], [filename |-> NameA, batch |-> 2]>>

(***************************************************************************)
(* C26: the forget at the end of revert-one removes at most one ledger     *)
(* row and none when no row names the file: in every reachable ledger a    *)
(* successful revert-one lowers the number of rows by at most one.         *)
(***************************************************************************)
C26_ForgetAtMostOne ==
    (last.op = "revert-one" /\ last.err = "") =>
        LET pre == Ledger(last.pre, last.conn)
            now == Ledger(db, last.conn)
        IN /\ Len(pre) - Len(now) <= 1
           /\ RowsOf(pre, last.file) = <<>> => now = pre

(***************************************************************************)
(* C27: revert-one does not consult the ledger before acting.  Called for  *)
(* a file without a ledger row, and with no call failing for a reason      *)
(* outside the program, it executes every revert statement of the file in  *)
(* order, and when they have all succeeded it returns nil with the ledger  *)
(* unchanged.                                                              *)
(***************************************************************************)
C27_RevertOneUnapplied ==
    (/\ last.op = "revert-one"
     /\ last.k = 0
     /\ last.conn \in Configured
     /\ RowsOf(Ledger(last.pre, last.conn), last.file) = <<>>)
    => /\ AreStatements(Calls("exec"), DownsOf(last.file), last.file, last.conn)
       /\ AllOk(Calls("exec"))
       /\ last.err = ""
       /\ LedgersUnchanged

\* C27, amended for the migrations table: revert-one of a file
\* without a ledger row executes the revert statements of the file in order
\* up to the first that fails, and leaves the ledger unchanged; when no call
\* is made to fail it executes them all, and then returns nil if the
\* migrations table exists and the error of the DELETE if it does not
C27_RevertOneUnappliedTable ==
    (/\ last.op = "revert-one"
     /\ last.conn \in Configured
     /\ RowsOf(Ledger(last.pre, last.conn), last.file) = <<>>)
    => /\ IsPrefix(Executed,
                   [i \in 1..Len(DownsOf(last.file)) |->
                       [file |-> last.file, sql |-> DownsOf(last.file)[i]]])
       /\ \A i \in 1..Len(Calls("exec")) : Calls("exec")[i].conn = last.conn
       /\ LedgersUnchanged
       /\ last.k = 0 =>
             /\ Len(Calls("exec")) = Len(DownsOf(last.file))
             /\ AllOk(Calls("exec"))
             /\ last.pre[last.conn].exists => last.err = "" /\ AllOk(Calls("delete"))
             /\ ~last.pre[last.conn].exists => last.err = "delete"

\* revert-one of the unrecorded file a has executed its two revert statements
\* and returned nil, on a ledger that holds a row of another file
C27_Witness ==
    /\ last.op = "revert-one"
    /\ last.file = NameA
    /\ last.conn \in Configured
    /\ last.err = ""
    /\ Ledger(last.pre, last.conn) # <<>>
    /\ RowsOf(Ledger(last.pre, last.conn), NameA) = <<>>
    /\ Len(Calls("exec")) = 2
    /\ Ledger(db, last.conn) = Ledger(last.pre, last.conn)

\* the revert statements of the files of names, in that order
RECURSIVE DownsInOrder(_)
DownsInOrder(names) ==
    IF names = <<>> THEN <<>>
    ELSE [i \in 1..Len(DownsOf(names[1])) |->
             [file |-> names[1], sql |-> DownsOf(names[1])[i]]]
         \o DownsInOrder(Tail(names))

\* the filenames of rows from the newest row to the oldest
NewestFirst(rows) == [i \in 1..Len(rows) |-> rows[Len(rows) + 1 - i].filename]

(***************************************************************************)
(* C30: under a single runner a successful revert-all executes the revert  *)
(* statements of the recorded change-sets in exactly the reverse of the    *)
(* insertion order of their rows across the whole ledger, not merely       *)
(* within each batch.                                                      *)
(***************************************************************************)
C30_RevertAllReverseOrder ==
    (last.op = "revert-all" /\ last.err = "") =>
        Executed = DownsInOrder(NewestFirst(Ledger(last.pre, last.conn)))

(***************************************************************************)
(* C24: the migrations table is created the first time migrate:all or      *)
(* rollback:batch, with or without --batch, is run on a connection: once   *)
(* either command has returned nil, the table of that connection exists.   *)
(***************************************************************************)
C24_TableCreated ==
    (/\ last.op \in {"apply-all", "revert-batch", "revert-last-batch"}
     /\ last.err = ""
     /\ last.conn \in Configured)
    => db[last.conn].exists

(***************************************************************************)
(* C22: an operation called without a connection name runs against the    *)
(* default connection of the registry, the one GetDefaultConnection        *)
(* resolves, whatever name is configured as default: its statements and    *)
(* ledger writes go to that connection and only the ledger of that         *)
(* connection changes.                                                     *)
(***************************************************************************)
C22_OmittedNameIsDefault ==
    (Ran /\ last.conn = "") =>
        /\ \A i \in 1..Len(Writes) : Writes[i].conn = last.def
        /\ \A y \in Configured \ {last.def} : db[y] = last.pre[y]

(***************************************************************************)
(* C23  No error is silently swallowed: when the ledger query or write of  *)
(* an operation fails (the lastBatch query of revert-all and of            *)
(* revert-last-batch, the isApplied query of apply-all, the query for the  *)
(* rows of the batch in revert-batch, the truncate of fresh), the          *)
(* operation returns an error.  Stated for the runs in which no other call *)
(* fails, on a configured connection, where the operation reaches that     *)
(* call whatever the ledgers hold.                                         *)
(***************************************************************************)
SiteOf(op) ==
    CASE op = "revert-all" -> "last"
      [] op = "revert-last-batch" -> "last"
      [] op = "apply-all" -> "count"
      [] op = "revert-batch" -> "rows"
      [] op = "fresh" -> "truncate"
      [] OTHER -> ""

SiteFailed ==
    /\ Ran
    /\ last.k = 0
    /\ last.conn \in Configured
    /\ SiteOf(last.op) \in last.u

C23_NoErrorSwallowed == SiteFailed => last.err # ""


(***************************************************************************)
(* C28  Two runners executing apply-all concurrently on one connection,    *)
(* without locking, can both read the same lastBatch and both find the     *)
(* same change-set pending; its apply statements are then executed twice   *)
(* and two ledger rows with that filename and that batch number exist      *)
(* afterwards.  The invariant says what such a run leaves whenever it      *)
(* happens; the witness is a run in which it happens.                      *)
(***************************************************************************)
BothDone ==
    /\ last.op = "apply-all x2"
    /\ \A r \in Runners : last.run[r].pc = "done"

\* both runners computed the same batch and both collected f
BothFound(f) ==
    /\ BothDone
    /\ \A r, q \in Runners : last.run[r].batch = last.run[q].batch
    /\ \A r \in Runners : \E i \in 1..Len(last.run[r].toRun) : last.run[r].toRun[i] = f

\* how often statement sql of change-set f reached the database
TimesExecuted(f, sql) ==
    Cardinality({i \in 1..Len(last.log) :
                    /\ last.log[i].call = "exec"
                    /\ last.log[i].file = f
                    /\ last.log[i].sql = sql
                    /\ last.log[i].ok})

\* the rows (f, b) of the ledger the runners share
RowsWith(f, b) ==
    {i \in 1..Len(db[last.conn].rows) :
        db[last.conn].rows[i] = [filename |-> f, batch |-> b]}

C28_SameBatchTwice ==
    \A f \in Files :
        BothFound(f) =>
            /\ Cardinality(RowsWith(f, last.run[1].batch)) >= 2
            /\ \A i \in 1..Len(UpsOf(f)) : TimesExecuted(f, UpsOf(f)[i]) >= 2

C28_Witness ==
    \E f \in Files :
        /\ BothFound(f)
        /\ Cardinality(RowsWith(f, last.run[1].batch)) = 2
        /\ UpsOf(f) # <<>>

(***************************************************************************)
(* C29  When several goroutines call GetConnection for the same name that  *)
(* is not connected yet, at most one connection is established for that    *)
(* name and every caller receives the same handle: the registry never      *)
(* holds or returns two different handles for one name.                    *)
(***************************************************************************)
HandlesFor(name) == {h \in 1..Cardinality(last.opened) : <<name, h>> \in last.opened}

\* goroutine g has returned a handle
Answered(g) ==
    /\ last.go[g].pc = "returned"
    /\ last.go[g].err = ""

C29_OneHandlePerName ==
    Calling =>
        /\ \A name \in CallNames : Cardinality(HandlesFor(name)) <= 1
        /\ \A g \in Goroutines :
              Answered(g) =>
                  /\ last.go[g].conn # 0
                  /\ last.go[g].conn = last.connections[last.go[g].name]
        /\ \A g, h \in Goroutines :
              (Answered(g) /\ Answered(h) /\ last.go[g].name = last.go[h].name)
                  => last.go[g].conn = last.go[h].conn

\* two goroutines both found the name missing under the read lock, and both
\* returned a handle
C29_Witness ==
    /\ Calling
    /\ \E g, h \in Goroutines :
          /\ g # h
          /\ last.go[g].name = last.go[h].name
          /\ last.go[g].missed /\ last.go[h].missed
          /\ Answered(g) /\ Answered(h)
          /\ last.go[g].conn = last.go[h].conn

====
